---- MODULE Spec2Model ----
(***************************************************************************)
(* A model of rapid_snippit.cpp: a scan over inheritance trees             *)
(* (inher_tree_scan), the three functors driven by it (add_eq, rand_gen_f, *)
(* print_f) and the two node templates (InternalNode, LeafNode).           *)
(*                                                                         *)
(* A tree type is a function from node paths to node declarations; a path  *)
(* is the sequence of child positions from the root.  Scalars are kept in  *)
(* half units (the value 3 stands for 1.5), so that the narrowing          *)
(* static_cast<T> of a sample is a real conversion.  Strings are sequences *)
(* of tokens, the separator " " being a token of its own.                  *)
(***************************************************************************)
EXTENDS Integers, Sequences, FiniteSets, TLC

\* ------------------------------------------------------------------ bounds

\* seeds handed to the generator by std::random_device: 0..MaxSeed
MaxSeed == 1
\* bar += foo is run at most MaxAdd times
MaxAdd == 2

\* ------------------------------------------------------ tree declarations

Internal(n) == [kind |-> "internal", name |-> n, T |-> "none"]
Leaf(n, t) == [kind |-> "leaf", name |-> n, T |-> t]

\* using Bar = InternalNode< one, A, B, InternalNode< two, D,
\*                           InternalNode< three, E > >, F, G >
Bar ==
  (<<>> :> Internal("one")) @@ (<<1>> :> Leaf("A", "int"))
  @@ (<<2>> :> Leaf("B", "float")) @@ (<<3>> :> Internal("two"))
  @@ (<<3, 1>> :> Leaf("D", "double")) @@ (<<3, 2>> :> Internal("three"))
  @@ (<<3, 2, 1>> :> Leaf("E", "long")) @@ (<<4>> :> Leaf("F", "double"))
  @@ (<<5>> :> Leaf("G", "int"))

\* InternalNode< nil >: no children at all
Nil == (<<>> :> Internal("nil"))

\* InternalNode< r, InternalNode< s >, X >: an empty composite before a leaf
Hollow ==
  (<<>> :> Internal("r")) @@ (<<1>> :> Internal("s"))
  @@ (<<2>> :> Leaf("X", "int"))

\* InternalNode< p, InternalNode< q, Y, Z >, W >
Pair ==
  (<<>> :> Internal("p")) @@ (<<1>> :> Internal("q"))
  @@ (<<1, 1>> :> Leaf("Y", "double")) @@ (<<1, 2>> :> Leaf("Z", "long"))
  @@ (<<2>> :> Leaf("W", "float"))

TreeTypes == {Bar, Nil, Hollow, Pair}

\* Bar foo, bar;
Inst == {"bar", "foo"}

IsPrefix(p, q) == Len(p) <= Len(q) /\ SubSeq(q, 1, Len(p)) = p

\* base_type: the ordered list of the direct children of node p
base_type(d, p) ==
  LET n == Cardinality({q \in DOMAIN d : Len(q) = Len(p) + 1 /\ IsPrefix(p, q)})
  IN  [i \in 1..n |-> Append(p, i)]

Leaves(d) == {q \in DOMAIN d : d[q].kind = "leaf"}

\* ------------------------------------------------- the compile time stack

\* the last entry is taken, while the first one is popped
current_base_last(Bases) == Bases[Len(Bases)]

\* mpl::deref< mpl::begin< Bases > >
current_base(Bases) == Head(Bases)

\* two entries are popped for one apply
remaining_bases_skip(Bases) == IF Len(Bases) > 1 THEN Tail(Tail(Bases)) ELSE Tail(Bases)

\* nothing is popped
remaining_bases_stuck(Bases) == Bases

\* mpl::pop_front< Bases >
remaining_bases(Bases) == Tail(Bases)

\* mpl::empty< Bases >
is_empty(Bases) == Bases = <<>>

\* ------------------------------------------------------ scalars and text

Abs(x) == IF x < 0 THEN -x ELSE x

\* dist(gen) at generator position k: a sample in half units.  The stream
\* is fixed by the seed; it holds negative and fractional samples.
Sample(k) == ((7 * k + 2) % 11) * 3 - 7

\* static_cast<T>(double): truncation towards zero for the integral types
Cast(T, h) ==
  IF T \in {"int", "long"}
    THEN (IF h < 0 THEN -((-h) \div 2) ELSE h \div 2) * 2
    ELSE h

\* operator<< of a scalar: sign, integral digits, fractional digits
Format(h) ==
  [neg |-> h < 0, whole |-> Abs(h) \div 2,
   frac |-> IF Abs(h) % 2 = 1 THEN "5" ELSE ""]

\* the separator is added without the test for an empty prefix
NodePrefix_nocheck(prefix, name) == prefix \o <<" ", name>>

\* InternalNode::print: the prefix handed to the children
NodePrefix(prefix, name) ==
  (IF prefix # <<>> THEN prefix \o <<" ">> ELSE prefix) \o <<name>>

\* LeafNode::print: the line written to std::cout
LeafLine(prefix, name, v) ==
  (IF prefix # <<>> THEN prefix \o <<" ">> ELSE prefix)
    \o <<name, " == ", Format(v)>>

\* = written for +=
LeafAdd_assign(a, b) == b

\* LeafNode::operator+=
LeafAdd(a, b) == a + b

\* the operands of += the wrong way round
AddEqChild_swapped(v, a, b, c) == [v EXCEPT ![b][c] = LeafAdd(v[b][c], v[a][c])]

\* add_eq::apply on a leaf child c: get<Child>(a) += get<Child>(b)
AddEqChild(v, a, b, c) == [v EXCEPT ![a][c] = LeafAdd(v[a][c], v[b][c])]

\* ------------------------------------------------------------ the state

VARIABLES
  decl,       \* the tree type both instances are declared with
  val,        \* val[t][q]: the scalar of leaf q of instance t, in half units
  gen,        \* the generator: its seed and the number of samples drawn
  adds,       \* how many times bar += foo has been started
  stack,      \* the active scans, innermost last
  call,       \* the top-level call that is running or has just returned
  pre,        \* val when that call started
  preGen,     \* gen when that call started
  trace,      \* what the scans of that call did, in order
  out,        \* the lines that call wrote to std::cout
  lastPrint,  \* per instance: its last finished print and what came after
  build       \* the build of a program that holds one statement a += b

vars == <<decl, val, gen, adds, stack, call, pre, preGen, trace, out, lastPrint,
          build>>

\* The program that runs has been built: Bar foo, bar; bar += foo;
Built == [lhs |-> Bar, rhs |-> Bar, work |-> <<>>, status |-> "built"]

NoCall == [op |-> "none", inst |-> "none", rhs |-> "none", prefix |-> <<>>,
           cat |-> "none"]
NoPrint == [valid |-> FALSE, prefix |-> <<>>, lines |-> <<>>, since |-> {}]

\* std::mt19937 gen{rd()}: the position of the generator in its stream
GenPos(g) == g.seed + g.n

\* the generator taken by value: the caller's copy does not advance
GenNext_copy(g) == g

\* one dist(gen) advances the generator
GenNext(g) == [g EXCEPT !.n = @ + 1]

\* What a finished call means for the last print of instance t.
Tag(c, t) ==
  IF c.op \in {"rand_gen", "add_eq"} /\ c.inst = t THEN "mod"
  ELSE IF c.op = "add_eq" /\ c.rhs = t THEN "src"
  ELSE "read"

Commit(lp, c, lines) ==
  [t \in Inst |->
     IF c.op = "none" THEN lp[t]
     ELSE IF c.op = "print" /\ c.inst = t
       THEN [valid |-> TRUE, prefix |-> c.prefix, lines |-> lines, since |-> {}]
     ELSE IF ~lp[t].valid \/ Tag(c, t) = "mod" THEN NoPrint
     ELSE [lp[t] EXCEPT !.since = @ \cup {Tag(c, t)}]]

Event(e, node, child, arg) == [e |-> e, node |-> node, child |-> child, arg |-> arg]

\* inher_tree_scan< Func >(p, ps...): Bases starts as Parent::base_type.
\* ps is the prefix for print_f, the name of the generator for rand_gen_f,
\* and for add_eq the right-hand object: its instance, then the names of
\* the composites down to the sub-object the scan is over.
Scan(func, t, p, ps, cat) ==
  [func |-> func, inst |-> t, node |-> p, bases |-> base_type(decl, p),
   ps |-> ps, cat |-> cat]

\* std::move written for std::forward: every argument is moved from
Forwarded_move(cat, byValue, ps) == IF byValue THEN {ps, <<>>} ELSE {ps}

\* The caller's ps once apply's parameter has been initialised from
\* std::forward<Params>(ps): a parameter taken by value is move-constructed
\* from an rvalue, which leaves ps valid but unspecified.
Forwarded(cat, byValue, ps) ==
  IF cat = "rvalue" /\ byValue THEN {ps, <<>>} ELSE {ps}

Top == stack[Len(stack)]
Busy == stack # <<>>
Returned == stack = <<>> /\ call.op # "none"

Init ==
  /\ decl \in TreeTypes
  /\ val = [t \in Inst |-> [q \in Leaves(decl) |-> 0]]
  /\ gen \in [seed : 0..MaxSeed, n : {0}]
  /\ adds = 0
  /\ stack = <<>>
  /\ call = NoCall
  /\ pre = val
  /\ preGen = gen
  /\ trace = <<>>
  /\ out = <<>>
  /\ lastPrint = [t \in Inst |-> NoPrint]
  /\ build = Built

\* The bookkeeping every top-level call starts with.
Begin(c, frame) ==
  /\ ~Busy
  /\ call' = c
  /\ pre' = val
  /\ preGen' = gen
  /\ out' = <<>>
  /\ lastPrint' = Commit(lastPrint, call, out)
  /\ stack' = <<frame>>
  /\ trace' = <<Event("scan", frame.node, frame.node, frame.ps)>>
  /\ UNCHANGED <<decl, val, gen, build>>

\* ------------------------------------------------------- top-level calls

\* t.print(prefix)
CallPrint(t, prefix) ==
  /\ adds' = adds
  /\ Begin([NoCall EXCEPT !.op = "print", !.inst = t, !.prefix = prefix,
                       !.cat = "lvalue"],
        Scan("print_f", t, <<>>, NodePrefix(prefix, decl[<<>>].name), "lvalue"))

\* bar.rand_gen(gen); foo.rand_gen(gen);
CallRandGen(t) ==
  /\ gen.n = (IF t = "bar" THEN 0 ELSE Cardinality(Leaves(decl)))
  /\ adds' = adds
  /\ Begin([NoCall EXCEPT !.op = "rand_gen", !.inst = t, !.cat = "lvalue"],
           Scan("rand_gen_f", t, <<>>, <<"gen">>, "lvalue"))

\* a += b
CallAddEq(a, b) ==
  /\ adds < MaxAdd
  /\ adds' = adds + 1
  /\ Begin([NoCall EXCEPT !.op = "add_eq", !.inst = a, !.rhs = b,
                          !.cat = "lvalue"],
           Scan("add_eq", a, <<>>, <<b>>, "lvalue"))

\* inher_tree_scan< print_f >(t, prefix), the prefix a named string (lvalue)
\* or a temporary (rvalue)
CallScan(t, prefix, cat) ==
  /\ adds' = adds
  /\ Begin([NoCall EXCEPT !.op = "scan", !.inst = t, !.prefix = prefix,
                       !.cat = cat],
        Scan("print_f", t, <<>>, prefix, cat))

\* ------------------------------------------------ inher_tree_scan_recur

\* The recursive case with Func = print_f:
\* print_f::apply< Parent, current_base >(p, std::forward<Params>(ps))
ApplyPrint ==
  /\ Busy /\ Top.func = "print_f" /\ ~is_empty(Top.bases)
  /\ LET f == Top
         c == current_base(f.bases)
         arg == f.ps
     IN \E after \in Forwarded(f.cat, TRUE, f.ps) :
          LET rest == [f EXCEPT !.bases = remaining_bases(f.bases), !.ps = after]
              under == SubSeq(stack, 1, Len(stack) - 1)
              sub == Scan("print_f", f.inst, c, NodePrefix(arg, decl[c].name), "lvalue")
          IN IF decl[c].kind = "leaf"
               THEN /\ out' = Append(out, LeafLine(arg, decl[c].name, val[f.inst][c]))
                    /\ stack' = Append(under, rest)
                    /\ trace' = Append(trace, Event("apply", f.node, c, arg))
               ELSE /\ out' = out
                    /\ stack' = under \o <<rest, sub>>
                    /\ trace' = trace \o <<Event("apply", f.node, c, arg),
                                           Event("scan", c, c, sub.ps)>>
  /\ UNCHANGED <<decl, val, gen, adds, call, pre, preGen, lastPrint, build>>

\* The recursive case with Func = rand_gen_f<Generator>:
\* rand_gen_f::apply< Parent, current_base >(p, g)
ApplyRandGen ==
  /\ Busy /\ Top.func = "rand_gen_f" /\ ~is_empty(Top.bases)
  /\ LET f == Top
         c == current_base(f.bases)
         arg == f.ps
     IN \E after \in Forwarded(f.cat, FALSE, f.ps) :
          LET rest == [f EXCEPT !.bases = remaining_bases(f.bases), !.ps = after]
              under == SubSeq(stack, 1, Len(stack) - 1)
              sub == Scan("rand_gen_f", f.inst, c, arg, "lvalue")
          IN IF decl[c].kind = "leaf"
               THEN /\ val' = [val EXCEPT ![f.inst][c] = Cast(decl[c].T, Sample(GenPos(gen)))]
                    /\ gen' = GenNext(gen)
                    /\ stack' = Append(under, rest)
                    /\ trace' = trace \o <<Event("apply", f.node, c, arg),
                                           Event("draw", f.node, c, GenPos(gen))>>
               ELSE /\ UNCHANGED <<val, gen>>
                    /\ stack' = under \o <<rest, sub>>
                    /\ trace' = trace \o <<Event("apply", f.node, c, arg),
                                           Event("scan", c, c, sub.ps)>>
  /\ UNCHANGED <<decl, adds, call, pre, preGen, out, lastPrint, build>>

\* The recursive case with Func = add_eq:
\* add_eq::apply< Parent, current_base >(p, rhs)
ApplyAddEq ==
  /\ Busy /\ Top.func = "add_eq" /\ ~is_empty(Top.bases)
  /\ LET f == Top
         c == current_base(f.bases)
         arg == f.ps
     IN \E after \in Forwarded(f.cat, FALSE, f.ps) :
          LET rest == [f EXCEPT !.bases = remaining_bases(f.bases), !.ps = after]
              under == SubSeq(stack, 1, Len(stack) - 1)
              sub == Scan("add_eq", f.inst, c, Append(arg, decl[c].name), "lvalue")
          IN IF decl[c].kind = "leaf"
               THEN /\ val' = AddEqChild(val, f.inst, Head(arg), c)
                    /\ stack' = Append(under, rest)
                    /\ trace' = Append(trace, Event("apply", f.node, c, arg))
               ELSE /\ val' = val
                    /\ stack' = under \o <<rest, sub>>
                    /\ trace' = trace \o <<Event("apply", f.node, c, arg),
                                           Event("scan", c, c, sub.ps)>>
  /\ UNCHANGED <<decl, gen, adds, call, pre, preGen, out, lastPrint, build>>

\* The base case: Bases is empty, the scan returns to its caller.
ScanEnd ==
  /\ Busy /\ is_empty(Top.bases)
  /\ stack' = SubSeq(stack, 1, Len(stack) - 1)
  /\ trace' = Append(trace, Event("end", Top.node, Top.node, Top.ps))
  /\ UNCHANGED <<decl, val, gen, adds, call, pre, preGen, out, lastPrint, build>>

\* bar.print("bar"), foo.print("foo"), and bar.print() with the default ""
Prefixes(t) == IF t = "bar" THEN {<<>>, <<t>>} ELSE {<<t>>}

Step == ApplyPrint \/ ApplyRandGen \/ ApplyAddEq \/ ScanEnd

Next ==
  \/ \E t \in Inst : \E prefix \in Prefixes(t) : CallPrint(t, prefix)
  \/ \E t \in Inst : CallRandGen(t)
  \/ CallAddEq("bar", "foo")
  \/ \E t \in Inst : \E cat \in {"lvalue", "rvalue"} : CallScan(t, <<t>>, cat)
  \/ ApplyPrint
  \/ ApplyRandGen
  \/ ApplyAddEq
  \/ ScanEnd

Spec == Init /\ [][Next]_vars

\* A started scan is not abandoned: the program is one thread that runs on.
FairSpec == Spec /\ WF_vars(Step)

\* --------------------------------------------------- the build of a += b

\* The type of the sub-object at p: the declaration below p, p as its root.
Subtree(d, p) ==
  [q \in {SubSeq(r, Len(p) + 1, Len(r)) : r \in {x \in DOMAIN d : IsPrefix(p, x)}}
     |-> d[p \o q]]

\* ChildNodes...: the ordered child types of a composite type
ChildNodes(d) == [i \in 1..Len(base_type(d, <<>>)) |-> Subtree(d, <<i>>)]

\* InternalNode< n, ChildNodes... > for the ChildNodes of d
Rename(d, n) == [d EXCEPT ![<<>>] = Internal(n)]

\* InternalNode< p, InternalNode< q, Y, Z >, W > with W an int
PairInt == [Pair EXCEPT ![<<2>>] = Leaf("W", "int")]

\* InternalNode< r, InternalNode< t >, X >: the inner name tag differs
HollowTag == [Hollow EXCEPT ![<<1>>] = Internal("t")]

\* InternalNode< r, X >
Single == (<<>> :> Internal("r")) @@ (<<1>> :> Leaf("X", "int"))

CompositeTypes ==
  TreeTypes \cup {Rename(Bar, "uno"), Rename(Nil, "nul"), Rename(Hollow, "rho"),
                  Rename(Pair, "pi"), PairInt, HollowTag, Single}

Item(kind, L, R, Bases) == [kind |-> kind, L |-> L, R |-> R, bases |-> Bases]

Compiling == build.status = "compiling" /\ build.work # <<>>
Current == build.work[Len(build.work)]
Others == SubSeq(build.work, 1, Len(build.work) - 1)

Running == <<decl, val, gen, adds, stack, call, pre, preGen, trace, out, lastPrint>>

\* L a; R b; a += b;
InitBuild ==
  /\ decl = Nil
  /\ val = [t \in Inst |-> [q \in Leaves(decl) |-> 0]]
  /\ gen = [seed |-> 0, n |-> 0]
  /\ adds = 0
  /\ stack = <<>>
  /\ call = NoCall
  /\ pre = val
  /\ preGen = gen
  /\ trace = <<>>
  /\ out = <<>>
  /\ lastPrint = [t \in Inst |-> NoPrint]
  /\ \E L \in CompositeTypes, R \in CompositeTypes :
       build = [lhs |-> L, rhs |-> R, work |-> <<Item("+=", L, R, <<>>)>>,
                status |-> "compiling"]

\* InternalNode< Name, ChildNodes... >::operator+=< RhsName >: the operand
\* must be an InternalNode< RhsName, ChildNodes... > for RhsName to be
\* deduced; the body then scans the left operand with the right one as ps.
ResolvePlusEq ==
  /\ Compiling /\ Current.kind = "+="
  /\ IF ChildNodes(Current.L) = ChildNodes(Current.R)
       THEN build' = [build EXCEPT !.work =
                        Append(Others, Item("scan", Current.L, Current.R,
                                            ChildNodes(Current.L)))]
       ELSE build' = [build EXCEPT !.status = "rejected"]
  /\ UNCHANGED Running

\* The recursive case instantiates add_eq::apply< Parent, current_base >
\* (Parent& a, Parent& b) for the call (p, rhs): rhs must be a Parent.  Its
\* body, get<Child>(a) += get<Child>(b), is LeafNode::operator+= for a
\* leaf and one more operator+= of the child type for a composite.
InstantiateApply ==
  /\ Compiling /\ Current.kind = "scan" /\ ~is_empty(Current.bases)
  /\ LET Child == current_base(Current.bases)
         rest == [Current EXCEPT !.bases = remaining_bases(Current.bases)]
     IN IF Current.R # Current.L
          THEN build' = [build EXCEPT !.status = "rejected"]
          ELSE IF Child[<<>>].kind = "leaf"
            THEN build' = [build EXCEPT !.work = Append(Others, rest)]
            ELSE build' = [build EXCEPT !.work =
                             Others \o <<rest, Item("+=", Child, Child, <<>>)>>]
  /\ UNCHANGED Running

\* The base case has an empty body.
InstantiateBase ==
  /\ Compiling /\ Current.kind = "scan" /\ is_empty(Current.bases)
  /\ build' = [build EXCEPT !.work = Others]
  /\ UNCHANGED Running

\* Nothing is left to instantiate: the program is built.
Link ==
  /\ build.status = "compiling" /\ build.work = <<>>
  /\ build' = [build EXCEPT !.status = "built"]
  /\ UNCHANGED Running

NextBuild == ResolvePlusEq \/ InstantiateApply \/ InstantiateBase \/ Link

SpecBuild == InitBuild /\ [][NextBuild]_vars

\* ------------------------------------------------- properties: helpers

RECURSIVE Walk(_, _)
\* The leaves below the nodes of todo, pre-order, depth first.
Walk(d, todo) ==
  IF todo = <<>> THEN <<>>
  ELSE LET p == Head(todo)
       IN IF d[p].kind = "leaf"
            THEN <<p>> \o Walk(d, Tail(todo))
            ELSE Walk(d, [i \in 1..Cardinality({q \in DOMAIN d :
                              Len(q) = Len(p) + 1 /\ IsPrefix(p, q)}) |-> Append(p, i)]
                         \o Tail(todo))

PreOrderLeaves(d) == Walk(d, << <<>> >>)

\* The names of the composite ancestors of node q, from the root down.
AncestorNames(d, q) == [i \in 1..Len(q) |-> d[SubSeq(q, 1, i - 1)].name]

RECURSIVE Join(_)
\* names joined by single spaces
Join(names) ==
  IF Len(names) <= 1 THEN names
  ELSE <<Head(names), " ">> \o Join(Tail(names))

\* The leaf name a printed line carries: the token before " == ".
NameOf(line) == line[Len(line) - 2]

Select(e) == SelectSeq(trace, LAMBDA x : x.e = e)

ReturnedFrom(op) == Returned /\ call.op = op

\* --------------------------------------------------------------- claims

\* C1: when a += b has returned, every leaf of a, at every depth, holds
\* its value from before the call plus the value of the same leaf of b,
\* and a still has exactly the leaves of its declaration.
C1_CombineAddsLeafwise ==
  ReturnedFrom("add_eq") =>
    /\ DOMAIN val[call.inst] = Leaves(decl)
    /\ \A q \in Leaves(decl) :
         val[call.inst][q] = pre[call.inst][q] + pre[call.rhs][q]

\* C1 witness: bar += foo has returned on the example tree, and the leaf E
\* at depth three was non-zero in both trees.
C1_Witness ==
  /\ ReturnedFrom("add_eq") /\ decl = Bar
  /\ pre["bar"][<<3, 2, 1>>] # 0 /\ pre["foo"][<<3, 2, 1>>] # 0
  /\ val["bar"][<<3, 2, 1>>] = pre["bar"][<<3, 2, 1>>] + pre["foo"][<<3, 2, 1>>]
  /\ pre["bar"][<<1>>] # 0 /\ pre["foo"][<<1>>] # 0

\* C2: when print on the root has returned, it has written one line per
\* leaf, no more, and the leaf names on the lines are the leaves in
\* pre-order declaration order; on the example tree A, B, D, E, F, G.
C2_PrintVisitsLeavesInOrder ==
  ReturnedFrom("print") =>
    LET leaves == PreOrderLeaves(decl)
    IN /\ Len(out) = Cardinality(Leaves(decl))
       /\ [i \in 1..Len(out) |-> NameOf(out[i])]
            = [i \in 1..Len(leaves) |-> decl[leaves[i]].name]
       /\ decl = Bar =>
            [i \in 1..Len(out) |-> NameOf(out[i])] = <<"A", "B", "D", "E", "F", "G">>

\* C2 witness: a print of the example tree has returned with six lines.
C2_Witness == ReturnedFrom("print") /\ decl = Bar /\ Len(out) = 6

\* C4: the line of a leaf is the caller's prefix (when not empty), the
\* names of the composite ancestors of the leaf from the root down, the
\* leaf's name, " == " and its value, with single spaces between the names.
C4_LineFormat ==
  ReturnedFrom("print") =>
    LET leaves == PreOrderLeaves(decl)
        start == IF call.prefix # <<>> THEN call.prefix \o <<" ">> ELSE <<>>
    IN /\ Len(out) = Len(leaves)
       /\ \A i \in 1..Len(out) :
            out[i] = start \o Join(AncestorNames(decl, leaves[i]))
                       \o <<" ", decl[leaves[i]].name, " == ",
                            Format(val[call.inst][leaves[i]])>>

\* C4 witness: on the example tree F, which follows the composite two, is
\* printed under "bar one" only, and E under "one two three" with no
\* caller prefix.
C4_Witness ==
  /\ ReturnedFrom("print") /\ decl = Bar /\ Len(out) = 6
  /\ \/ /\ call.prefix = <<"bar">>
        /\ SubSeq(out[5], 1, 5) = <<"bar", " ", "one", " ", "F">>
        /\ val["bar"][<<4>>] # 0
     \/ /\ call.prefix = <<>>
        /\ SubSeq(out[4], 1, 7) = <<"one", " ", "two", " ", "three", " ", "E">>
        /\ val["bar"][<<3, 2, 1>>] # 0

\* C5: when rand_gen on the root has returned, every leaf has been assigned
\* exactly once, the i-th leaf in pre-order holding the cast of the i-th
\* sample drawn after the call started, and the generator has advanced by
\* the number of leaves; after bar and then foo, bar holds the first and
\* foo the next samples of the stream.
C5_RandGenDrawsInOrder ==
  ReturnedFrom("rand_gen") =>
    LET leaves == PreOrderLeaves(decl)
        draws == Select("draw")
        n == Len(leaves)
    IN /\ Len(draws) = n
       /\ \A i \in 1..Len(draws) :
            /\ draws[i].child = leaves[i]
            /\ draws[i].arg = GenPos(preGen) + i - 1
            /\ val[call.inst][leaves[i]]
                 = Cast(decl[leaves[i]].T, Sample(GenPos(preGen) + i - 1))
       /\ gen.seed = preGen.seed /\ gen.n = preGen.n + n
       /\ call.inst = "foo" /\ n > 0 =>
            \A i \in 1..n :
              /\ val["bar"][leaves[i]] = Cast(decl[leaves[i]].T, Sample(gen.seed + i - 1))
              /\ val["foo"][leaves[i]] = Cast(decl[leaves[i]].T, Sample(gen.seed + n + i - 1))

\* C5 witness: foo.rand_gen has returned on the example tree after bar's,
\* twelve samples are gone, and the long leaf E of foo holds a truncated
\* sample.
C5_Witness ==
  /\ ReturnedFrom("rand_gen") /\ call.inst = "foo" /\ decl = Bar /\ gen.n = 12
  /\ val["foo"][<<3, 2, 1>>] # Sample(gen.seed + 9)
  /\ val["foo"][<<3, 2, 1>>] # val["bar"][<<3, 2, 1>>]

\* C6: a print that directly follows a print of the same instance with the
\* same prefix writes the same lines, and no print changes a leaf value.
C6_PrintTwiceSame ==
  /\ call.op = "print" => val = pre
  /\ ReturnedFrom("print") =>
       LET lp == lastPrint[call.inst]
       IN lp.valid /\ lp.prefix = call.prefix /\ lp.since = {} => out = lp.lines

\* C6 witness: the second of two prints in succession has returned on the
\* randomized example tree.
C6_Witness ==
  /\ ReturnedFrom("print") /\ decl = Bar /\ gen.n = 12
  /\ lastPrint[call.inst].valid /\ lastPrint[call.inst].prefix = call.prefix
  /\ lastPrint[call.inst].since = {} /\ Len(out) = 6

\* C10: bar += foo leaves every leaf of foo as it was, and a print of foo
\* after it writes the lines the print of foo before it wrote.
C10_SourceUnchanged ==
  /\ (call.op = "add_eq" /\ call.rhs # call.inst) => val[call.rhs] = pre[call.rhs]
  /\ ReturnedFrom("print") =>
       LET lp == lastPrint[call.inst]
       IN lp.valid /\ lp.prefix = call.prefix /\ "src" \in lp.since => out = lp.lines

\* C10 witness: foo is printed, bar += foo runs, bar is printed, foo is
\* printed again, as in main, on the randomized example tree.
C10_Witness ==
  /\ ReturnedFrom("print") /\ call.inst = "foo" /\ decl = Bar /\ gen.n = 12
  /\ lastPrint["foo"].valid /\ lastPrint["foo"].since = {"src", "read"}
  /\ Len(out) = 6 /\ val["foo"][<<1>>] # 0
  /\ val["bar"][<<1>>] # val["foo"][<<1>>]

\* The apply events of the scan over node p, in order.
Applies(p) == SelectSeq(trace, LAMBDA x : x.e = "apply" /\ x.node = p)

Ended(p) == \E j \in 1..Len(trace) : trace[j].e = "end" /\ trace[j].node = p

\* C7: a scan over a node invokes apply once per direct child, in
\* declaration order, never more; it invokes apply once for a composite
\* child and does not visit that child's children itself: they are visited
\* by the scan that the child's own method starts, and that scan has ended
\* before apply is invoked for the next sibling.
C7_OneApplyPerChildInOrder ==
  /\ \A i \in 1..Len(trace) :
       trace[i].e = "scan" =>
         LET p == trace[i].node
             A == Applies(p)
             B == base_type(decl, p)
         IN /\ Len(A) <= Len(B)
            /\ \A k \in 1..Len(A) : A[k].child = B[k]
            /\ Ended(p) => Len(A) = Len(B)
            /\ \A j \in 1..Len(trace) :
                 (j # i /\ trace[j].e = "scan") => trace[j].node # p
  /\ \A i \in 1..Len(trace) :
       trace[i].e = "apply" =>
         LET p == trace[i].node
             c == trace[i].child
         IN /\ \E j \in 1..(i - 1) : trace[j].e = "scan" /\ trace[j].node = p
            /\ ~Ended(p) \/ \E j \in (i + 1)..Len(trace) :
                              trace[j].e = "end" /\ trace[j].node = p
            /\ decl[c].kind = "leaf" =>
                 \A j \in 1..Len(trace) : trace[j].e \in {"scan", "end"} => trace[j].node # c
            /\ decl[c].kind = "internal" =>
                 /\ i < Len(trace) => (trace[i + 1].e = "scan" /\ trace[i + 1].node = c)
                 /\ \A j \in (i + 1)..Len(trace) :
                      (trace[j].e = "apply" /\ trace[j].node = p) =>
                        \E k \in (i + 1)..(j - 1) :
                          trace[k].e = "end" /\ trace[k].node = c

\* C7 witness: bar += foo has returned on the example tree: the root scan
\* made five invocations, the fourth (F) after the scan over two had ended.
C7_Witness ==
  /\ ReturnedFrom("add_eq") /\ decl = Bar
  /\ Len(Applies(<<>>)) = 5 /\ Len(Applies(<<3>>)) = 2 /\ Len(Applies(<<3, 2>>)) = 1
  /\ \E i, j \in 1..Len(trace) :
       /\ i < j
       /\ trace[i].e = "end" /\ trace[i].node = <<3>>
       /\ trace[j].e = "apply" /\ trace[j].child = <<4>>

\* C8: every invocation of apply receives the parameter values the scan
\* was started with.
C8_ParamsForwardedUnchanged ==
  \A i \in 1..Len(trace) :
    trace[i].e = "apply" =>
      \A j \in 1..Len(trace) :
        (trace[j].e = "scan" /\ trace[j].node = trace[i].node) =>
          trace[i].arg = trace[j].arg

\* C8, restricted to the scans the node methods start, which all pass a
\* named object: there every invocation receives the scan's parameters.
C8_LvalueParamsForwardedUnchanged ==
  call.cat = "lvalue" => C8_ParamsForwardedUnchanged

RECURSIVE Pending(_, _)
\* The steps the entries of Bases still stand for: one apply per node below
\* them, and one return per composite below them.
Pending(d, Bases) ==
  IF Bases = <<>> THEN 0
  ELSE Cardinality({q \in DOMAIN d : IsPrefix(Head(Bases), q)})
       + Cardinality({q \in DOMAIN d : IsPrefix(Head(Bases), q) /\ d[q].kind = "internal"})
       + Pending(d, Tail(Bases))

RECURSIVE Measure(_)
\* The steps the scans of st still have to take.
Measure(st) ==
  IF st = <<>> THEN 0
  ELSE 1 + Pending(decl, Head(st).bases) + Measure(Tail(st))

C9_Counts ==
  /\ Returned => Len(Select("apply")) = Cardinality(DOMAIN decl) - 1
  /\ \A i \in 1..Len(trace) :
       (trace[i].e = "scan" /\ base_type(decl, trace[i].node) = <<>>) =>
         /\ Applies(trace[i].node) = <<>>
         /\ i < Len(trace) => (trace[i + 1].e = "end" /\ trace[i + 1].node = trace[i].node)
  /\ Busy => ENABLED Step

C9_Steps ==
  Busy =>
    /\ Measure(stack') < Measure(stack)
    /\ base_type(decl, Top.node) = <<>> =>
         /\ stack' = SubSeq(stack, 1, Len(stack) - 1)
         /\ UNCHANGED <<val, gen, out>>

\* C9: every started call returns; a scan over a node without children
\* invokes nothing, changes nothing and returns at once; every step of a
\* scan lowers the number of steps left; and a call that started at the
\* root has made one invocation per node other than the root when it
\* returns.
C9_Terminates ==
  /\ []C9_Counts
  /\ [][C9_Steps]_vars
  /\ (Busy ~> ~Busy)

\* C9 witness: calls have returned on the tree without children with no
\* invocation, and on the example tree with eight.
C9_Witness ==
  /\ Returned /\ call.op \in {"print", "rand_gen", "add_eq"}
  /\ \/ decl = Nil /\ trace = <<Event("scan", <<>>, <<>>, trace[1].arg),
                                Event("end", <<>>, <<>>, trace[1].arg)>>
     \/ decl = Bar /\ Len(Select("apply")) = 8 /\ call.op = "rand_gen"

\* C3: a += b is built exactly when the two composites have the same
\* ordered child types, whatever their own name tags; otherwise the build
\* rejects it.
C3_BuiltIffSameChildren ==
  build.status \in {"built", "rejected"} =>
    (build.status = "built" <=> ChildNodes(build.lhs) = ChildNodes(build.rhs))

\* What the build does instead: it also rejects operands whose own name
\* tags differ, unless they have no children at all.
C3_BuiltIffSameType ==
  build.status \in {"built", "rejected"} =>
    (build.status = "built" <=>
       /\ ChildNodes(build.lhs) = ChildNodes(build.rhs)
       /\ ChildNodes(build.lhs) = <<>> \/ build.lhs = build.rhs)

====
